---- MODULE Spec2Model ----
(***************************************************************************)
(* ObjInfo of decomp-toolkit (src/obj/mod.rs): the per-section split       *)
(* tables and ObjInfo::add_split, the split-merging operation.             *)
(*                                                                         *)
(* A stored split is a record [addr, unit, end, align, common,             *)
(* autogenerated]: addr is the key it is stored under, the other fields    *)
(* are those of ObjSplit.  Option<u32> (align) is a set of at most one     *)
(* number: {} is None, {4} is Some(4).  ObjSplit's skip and rename fields  *)
(* are read by no branch of add_split and are left out.                    *)
(*                                                                         *)
(* Further down: ObjRelocations and ObjRelocKind (src/obj/relocations.rs), *)
(* ObjInfo::add_symbol, is_unit_autogenerated, code_size and data_size,    *)
(* and FileIterator (src/util/file.rs).                                    *)
(***************************************************************************)
EXTENDS Bags, FiniteSets, Integers, Sequences, TLC

VARIABLES
    splits,       \* splits[i]: the bag of splits stored in section i (ObjSection::splits)
    call,         \* the last call made: its arguments, its result, its debug log
    ncalls,       \* the number of calls made so far that count against the bound
    relocations,  \* ObjRelocations::relocations: the map from address to ObjReloc
    sections,     \* ObjInfo::sections: the kind, address and size of every section
    symbols,      \* ObjInfo::symbols: the symbols of the symbol table, by index
    linker,       \* ObjInfo's "Linker generated" fields, sda2_base .. arena_hi
    iter          \* a FileIterator: its paths, its index, its rarc

vars == <<splits, call, ncalls, relocations, sections, symbols, linker, iter>>

---------------------------------------------------------------------------
(* Bounds of the model. *)

\* Sections 0 .. NumSections-1 exist; every section starts at address 0.
NumSections == 2
\* section.size of section 0; section i is the range [0, SectionSize - i).
SectionSize == 3
\* The number of add_split calls in a behaviour of Spec.
MaxCalls == 2
\* The number of add_split calls in a behaviour of SpecDeep.
MaxDeepCalls == 7

---------------------------------------------------------------------------
(* Sections. *)

Sections == 0 .. (NumSections - 1)

section_start(i) == 0

section_size(i) == SectionSize - i

section_end(i) == section_start(i) + section_size(i)

Min(a, b) == IF a <= b THEN a ELSE b

Max(a, b) == IF a >= b THEN a ELSE b

---------------------------------------------------------------------------
(* ObjSplits: the split table of one section, a bag of stored splits. *)

Stored(address, split) ==
    [addr |-> address, unit |-> split.unit, end |-> split.end, align |-> split.align,
     common |-> split.common, autogenerated |-> split.autogenerated]

\* ObjSplits::for_unit: the stored splits of `unit` (a set; a bag count above
\* one, or two of them, is the "multiple splits" error of the lookup).
for_unit(table, unit) == {e \in BagToSet(table) : e.unit = unit}

\* How many splits of `unit` the table holds.
for_unit_count(table, unit) ==
    BagCardinality([e \in for_unit(table, unit) |-> table[e]])

\* Whether the range of stored split e and [new_start, new_end) share an address.
intersects(e, new_start, new_end) ==
    LET lo == Max(e.addr, new_start)
    IN  lo < new_end /\ (e.end = 0 \/ lo < e.end)

\* ObjSplits::for_range(new_start..new_end): the stored splits whose range
\* intersects [new_start, new_end).
for_range(table, new_start, new_end) ==
    {e \in BagToSet(table) : intersects(e, new_start, new_end)}

\* ObjSplits::push
push(table, address, split) == table (+) SetToBag({Stored(address, split)})

\* ObjSplits::remove, for every address of to_remove
remove(table, to_remove) ==
    [e \in {x \in BagToSet(table) : x.addr \notin to_remove} |-> table[e]]

\* The rename loop over one table: every split of a unit of to_rename gets `unit`.
rename(table, to_rename, unit) ==
    IF \A e \in BagToSet(table) : e.unit \notin to_rename THEN table
    ELSE BagOfAll(LAMBDA e : IF e.unit \in to_rename THEN [e EXCEPT !.unit = unit] ELSE e,
                  table)

---------------------------------------------------------------------------
(* ObjInfo::add_split.  The result is [res, splits, log]: res is "Ok", the *)
(* error returned, or "StackOverflow" when the recursion never returns;    *)
(* splits are the tables the call leaves behind; log lists the debug       *)
(* messages of the path taken ("Covers", "Extending", "Found", "Adding").  *)

Ret(res, tables, log) == [res |-> res, splits |-> tables, log |-> log]

\* The match on (split.align, existing_split.align): TRUE when it bails.
align_conflict(split, existing_split) ==
    /\ split.align # {}
    /\ existing_split.align # {}
    /\ split.align # existing_split.align

new_align(split, existing_split) ==
    IF split.align # {} THEN split.align ELSE existing_split.align

new_autogenerated(split, existing_split) ==
    split.autogenerated /\ existing_split.autogenerated

\* "If the new split is contained within the existing split, do nothing"
contained(new_start, new_end, existing_split) ==
    new_start >= existing_split.addr /\ new_end <= existing_split.end

\* The split the merge path hands to the recursive call.
merged(split, existing_split, new_end) ==
    [unit |-> split.unit, end |-> new_end, align |-> new_align(split, existing_split),
     common |-> split.common,
     autogenerated |-> new_autogenerated(split, existing_split)]

\* The tables after "Remove overlapping splits" and "Rename any units that
\* were overwritten".
replaced(self, section_index, in_range, unit) ==
    LET to_remove == {e.addr : e \in in_range}
        to_rename == {e.unit : e \in in_range} \ {unit}
        removed == [self EXCEPT ![section_index] = remove(@, to_remove)]
    IN  [i \in DOMAIN self |-> rename(removed[i], to_rename, unit)]

RECURSIVE add_split(_, _, _, _)
add_split(self, section_index, address, split) ==
    IF section_index \notin DOMAIN self THEN Ret("InvalidSection", self, <<>>)
    ELSE IF ~(split.end = 0 \/ split.end <= section_end(section_index))
    THEN Ret("SplitOutOfBounds", self, <<>>)
    ELSE IF for_unit(self[section_index], split.unit) = {}
    THEN Ret("Ok", [self EXCEPT ![section_index] = push(@, address, split)], <<"Adding">>)
    ELSE IF for_unit_count(self[section_index], split.unit) > 1
    THEN Ret("MultipleSplits", self, <<>>)
    ELSE
        LET existing_split == CHOOSE e \in for_unit(self[section_index], split.unit) : TRUE
            new_start == Min(existing_split.addr, address)
            new_end == Max(existing_split.end, split.end)
            in_range == for_range(self[section_index], new_start, new_end)
            after == replaced(self, section_index, in_range, split.unit)
            next_split == merged(split, existing_split, new_end)
        IN  IF align_conflict(split, existing_split)
            THEN Ret("AlignmentConflict", self, <<>>)
            ELSE IF split.common # existing_split.common
            THEN Ret("CommonFlagConflict", self, <<>>)
            ELSE IF contained(new_start, new_end, existing_split)
            THEN Ret("Ok", self, <<"Covers">>)
            ELSE IF split.autogenerated /\ \E e \in in_range : ~e.autogenerated
            THEN Ret("Ok", self, <<"Extending", "Found">>)
            ELSE IF \E e \in in_range : ~(e.autogenerated \/ e.unit = split.unit)
            THEN Ret("OverlappingSplit", self, <<"Extending">>)
            ELSE IF after = self /\ new_start = address /\ next_split = split
            THEN Ret("StackOverflow", self, <<"Extending">>)
            ELSE LET r == add_split(after, section_index, new_start, next_split)
                 IN  Ret(r.res, r.splits, <<"Extending">> \o r.log)

---------------------------------------------------------------------------
(* ObjInfo::is_unit_autogenerated *)

\* ObjSections::all_splits: the stored splits of every section.
all_splits(self) == UNION {BagToSet(self[i]) : i \in DOMAIN self}

\* .any() in the place of .all()
is_unit_autogenerated_any(self, unit) ==
    \E split \in {e \in all_splits(self) : e.unit = unit} : split.autogenerated

\* ObjInfo::is_unit_autogenerated
is_unit_autogenerated(self, unit) ==
    \A split \in {e \in all_splits(self) : e.unit = unit} : split.autogenerated

---------------------------------------------------------------------------
(* ObjRelocations (src/obj/relocations.rs): a BTreeMap<u32, ObjReloc>, here *)
(* a function from the addresses it holds to the relocations stored there. *)
(* A Result is [ok |-> TRUE, ...] or the ExistingRelocationError            *)
(* [ok |-> FALSE, address, value]; an Option is a set of at most one value. *)
(* The record of a call names what the call returned by its type: res for   *)
(* a Result or an index, found for an Option, present for a bool, size for  *)
(* a size.                                                                  *)

\* BTreeMap::new
EmptyMap == [k \in {} |-> k]

\* BTreeMap::insert(key, value): the map with value under key.
put(map, key, value) ==
    [k \in DOMAIN map \cup {key} |-> IF k = key THEN value ELSE map[k]]

\* address & !3
Mask(address) == address - (address % 4)

ExistingRelocationError(address, value) ==
    [ok |-> FALSE, address |-> address, value |-> value]

\* The match overwriting an occupied entry.
entry_overwrite(map, address, reloc) == [ok |-> TRUE, map |-> put(map, address, reloc)]

\* The match on map.entry(address) of ObjRelocations::new and ::insert.
entry_insert(map, address, reloc) ==
    IF address \notin DOMAIN map
    THEN [ok |-> TRUE, map |-> put(map, address, reloc)]
    ELSE ExistingRelocationError(address, map[address])

\* ObjRelocations::new, from entry number i of `entries` on, with `map` built.
RECURSIVE new_from(_, _, _)
new_from(entries, i, map) ==
    IF i > Len(entries) THEN [ok |-> TRUE, map |-> map]
    ELSE LET e == entry_insert(map, Mask(entries[i].address), entries[i].reloc)
         IN  IF e.ok THEN new_from(entries, i + 1, e.map) ELSE e

\* ObjRelocations::new
new(entries) == new_from(entries, 1, EmptyMap)

\* insert without the mask.
insert_unmasked(map, address, reloc) == entry_insert(map, address, reloc)

\* ObjRelocations::insert
insert(map, address, reloc) == entry_insert(map, Mask(address), reloc)

\* ObjRelocations::replace
replace(map, address, reloc) == put(map, address, reloc)

\* ObjRelocations::at
at(map, address) == IF address \in DOMAIN map THEN {map[address]} ELSE {}

\* ObjRelocations::at_mut
at_mut(map, address) == IF address \in DOMAIN map THEN {map[address]} ELSE {}

\* ObjRelocations::contains
contains(map, address) == address \in DOMAIN map

---------------------------------------------------------------------------
(* ObjRelocKind and its serde implementations.  A kind is the name of its   *)
(* variant; what deserialize returns is [ok |-> TRUE, kind] or the          *)
(* unknown_variant error [ok |-> FALSE, variant, expected].                 *)

ObjRelocKind ==
    {"Absolute", "PpcAddr16Hi", "PpcAddr16Ha", "PpcAddr16Lo", "PpcRel24", "PpcRel14",
     "PpcEmbSda21"}

\* Serialize with the code "lo" for PpcAddr16Lo.
serialize_lo(kind) ==
    CASE kind = "Absolute" -> "abs"
      [] kind = "PpcAddr16Hi" -> "hi"
      [] kind = "PpcAddr16Ha" -> "ha"
      [] kind = "PpcAddr16Lo" -> "lo"
      [] kind = "PpcRel24" -> "rel24"
      [] kind = "PpcRel14" -> "rel14"
      [] kind = "PpcEmbSda21" -> "sda21"

\* impl Serialize for ObjRelocKind
serialize(kind) ==
    CASE kind = "Absolute" -> "abs"
      [] kind = "PpcAddr16Hi" -> "hi"
      [] kind = "PpcAddr16Ha" -> "ha"
      [] kind = "PpcAddr16Lo" -> "l"
      [] kind = "PpcRel24" -> "rel24"
      [] kind = "PpcRel14" -> "rel14"
      [] kind = "PpcEmbSda21" -> "sda21"

unknown_variant(s, expected) == [ok |-> FALSE, variant |-> s, expected |-> expected]

\* impl Deserialize for ObjRelocKind
deserialize(s) ==
    CASE s \in {"Absolute", "abs"} -> [ok |-> TRUE, kind |-> "Absolute"]
      [] s \in {"PpcAddr16Hi", "hi"} -> [ok |-> TRUE, kind |-> "PpcAddr16Hi"]
      [] s \in {"PpcAddr16Ha", "ha"} -> [ok |-> TRUE, kind |-> "PpcAddr16Ha"]
      [] s \in {"PpcAddr16Lo", "l"} -> [ok |-> TRUE, kind |-> "PpcAddr16Lo"]
      [] s \in {"PpcRel24", "rel24"} -> [ok |-> TRUE, kind |-> "PpcRel24"]
      [] s \in {"PpcRel14", "rel14"} -> [ok |-> TRUE, kind |-> "PpcRel14"]
      [] s \in {"PpcEmbSda21", "sda21"} -> [ok |-> TRUE, kind |-> "PpcEmbSda21"]
      [] OTHER -> unknown_variant(s, <<"abs", "hi", "ha", "l", "rel24", "rel14", "sda21">>)

---------------------------------------------------------------------------
(* ObjInfo::add_symbol.  An ObjSymbol is [name, address, size, common]:     *)
(* address and size are u64, common is flags.is_common().  The fields      *)
(* add_symbol sets are Option<u32>: {} is None, {a} is Some(a).             *)

\* The width of u32 in the model, in bits (32 in the program).
WordBits == 16

\* The number of values of u32: `x as u32` is x % U32.
U32 == 2 ^ WordBits

\* The "Linker generated" fields as ObjInfo::new leaves them.
Unset ==
    [sda2_base |-> {}, sda_base |-> {}, stack_address |-> {}, stack_end |-> {},
     db_stack_addr |-> {}, arena_lo |-> {}, arena_hi |-> {}]

\* ObjSymbols::add(in_symbol, replace): with replace (here `overwrite`) a
\* symbol overwrites the entry of its name in place; otherwise it is
\* appended.  [symbols, index]
symbols_add(table, in_symbol, overwrite) ==
    IF overwrite /\ \E i \in DOMAIN table : table[i].name = in_symbol.name
    THEN LET i == CHOOSE i \in DOMAIN table : table[i].name = in_symbol.name
         IN  [symbols |-> [table EXCEPT ![i] = in_symbol], index |-> i - 1]
    ELSE [symbols |-> Append(table, in_symbol), index |-> Len(table)]

\* The match on in_symbol.name with two arms exchanged.
capture_swapped(fields, in_symbol) ==
    LET a == {in_symbol.address % U32}
    IN  CASE in_symbol.name = "_SDA_BASE_" -> [fields EXCEPT !.sda2_base = a]
          [] in_symbol.name = "_SDA2_BASE_" -> [fields EXCEPT !.sda_base = a]
          [] OTHER -> fields

\* The match on in_symbol.name.as_str()
capture(fields, in_symbol) ==
    LET a == {in_symbol.address % U32}
    IN  CASE in_symbol.name = "_SDA_BASE_" -> [fields EXCEPT !.sda_base = a]
          [] in_symbol.name = "_SDA2_BASE_" -> [fields EXCEPT !.sda2_base = a]
          [] in_symbol.name = "_stack_addr" -> [fields EXCEPT !.stack_address = a]
          [] in_symbol.name = "_stack_end" -> [fields EXCEPT !.stack_end = a]
          [] in_symbol.name = "_db_stack_addr" -> [fields EXCEPT !.db_stack_addr = a]
          [] in_symbol.name = "__ArenaLo" -> [fields EXCEPT !.arena_lo = a]
          [] in_symbol.name = "__ArenaHi" -> [fields EXCEPT !.arena_hi = a]
          [] OTHER -> fields

\* ObjInfo::add_symbol: [linker, symbols, index]
add_symbol(fields, table, in_symbol, overwrite) ==
    LET r == symbols_add(table, in_symbol, overwrite)
    IN  [linker |-> capture(fields, in_symbol), symbols |-> r.symbols, index |-> r.index]

---------------------------------------------------------------------------
(* ObjInfo::code_size and ::data_size.  Iterator::sum over u32 adds with   *)
(* the overflow checks of the build: past the largest u32 it panics where  *)
(* they are on and wraps where they are off.  A sum is [value, overflow].  *)

RECURSIVE sum_from(_, _, _)
sum_from(values, i, acc) ==
    IF i > Len(values) THEN acc
    ELSE sum_from(values, i + 1,
                  [value |-> (acc.value + values[i]) % U32,
                   overflow |-> acc.overflow \/ acc.value + values[i] >= U32])

\* Iterator::sum::<u32>
sum(values) == sum_from(values, 1, [value |-> 0, overflow |-> FALSE])

\* .map(|x| x.size as u32)
sizes(items) == [i \in DOMAIN items |-> items[i].size % U32]

is_code(section) == section.kind = "Code"

is_data(section) == section.kind # "Code"

is_common(symbol) == symbol.common

\* ObjInfo::code_size
code_size(secs) == sum(sizes(SelectSeq(secs, is_code)))

\* ObjInfo::data_size
data_size(secs, syms) ==
    sum(sizes(SelectSeq(secs, is_data)) \o sizes(SelectSeq(syms, is_common)))

\* What a call returns: {v} is the value v, {} is a panic.
Returns(total) == IF total.overflow THEN {{}, {total.value}} ELSE {{total.value}}

---------------------------------------------------------------------------
(* FileIterator and RarcIterator (src/util/file.rs).  A path is            *)
(* [name, file]: the file it names is part of it.  A file is               *)
(* [magic, valid, entries]: magic is "missing" (map_file fails), "short"   *)
(* (at most 4 bytes), "Yaz0", "RARC" or "other" (its first 4 bytes);       *)
(* valid tells whether yaz0::decompress_file or RarcReader::new accepts    *)
(* it; entries are the File nodes of an archive, in the order of           *)
(* reader.nodes(), each one [name, data] with data "plain", "Yaz0" or      *)
(* "BadYaz0" (a Yaz0 blob that does not decompress).  An entry's offset    *)
(* and size lie within the archive.  What next returns is an Option, a set *)
(* of at most one item [path, ok, entry]: path is the path the item is     *)
(* about, [name, member] with member 0 for the file itself and j for the   *)
(* j-th entry of the archive; ok tells Ok from Err; entry is the FileEntry *)
(* variant, "Map" or "Buffer", or "Err".                                   *)

Some(path, entry) == {[path |-> path, ok |-> TRUE, entry |-> entry]}

Err(path) == {[path |-> path, ok |-> FALSE, entry |-> "Err"]}

\* The path of a file given on the command line.
Outer(path) == [name |-> path.name, member |-> 0]

\* map_file: the Mmap of the file, or the error of File::open.
map_file(path) ==
    IF path.file.magic = "missing" THEN [ok |-> FALSE] ELSE [ok |-> TRUE, map |-> path.file]

\* RarcIterator::collect_paths: base_path joined with the name of every File
\* node, in the order of the nodes.
collect_paths(file, base_path) ==
    [j \in DOMAIN file.entries |->
        [path |-> [name |-> base_path.name, member |-> file.entries[j].name],
         data |-> file.entries[j].data]]

\* RarcIterator::new
RarcIterator_new(file, base_path) ==
    IF ~file.valid THEN [ok |-> FALSE]
    ELSE [ok |-> TRUE, iter |-> [paths |-> collect_paths(file, base_path), index |-> 0]]

\* RarcIterator::decompress_if_needed: TRUE for Ok
decompress_if_needed(data) == data # "BadYaz0"

\* RarcIterator::next: [rarc, item]
RarcIterator_next(rarc) ==
    IF rarc.index >= Len(rarc.paths) THEN [rarc |-> rarc, item |-> {}]
    ELSE LET e == rarc.paths[rarc.index + 1]
         IN  [rarc |-> [rarc EXCEPT !.index = @ + 1],
              item |-> IF decompress_if_needed(e.data) THEN Some(e.path, "Buffer")
                       ELSE Err(e.path)]

\* process_rsp, for paths that neither start with '@' nor hold a '*'
process_rsp(paths) == paths

\* FileIterator::new
FileIterator_new(paths) == [paths |-> process_rsp(paths), index |-> 0, rarc |-> {}]

\* What a step of the iterator leaves and returns.
Step(self, item) == [self |-> self, item |-> item]

\* next_rarc that gives up the archive at an entry that failed.
next_rarc_until_err(self) ==
    IF self.rarc = {} THEN Step(self, {})
    ELSE LET rarc == CHOOSE r \in self.rarc : TRUE
             r == RarcIterator_next(rarc)
         IN  IF \E item \in r.item : item.ok THEN Step([self EXCEPT !.rarc = {r.rarc}], r.item)
             ELSE Step([self EXCEPT !.rarc = {}], {})

\* FileIterator::next_rarc
next_rarc(self) ==
    IF self.rarc = {} THEN Step(self, {})
    ELSE LET rarc == CHOOSE r \in self.rarc : TRUE
             r == RarcIterator_next(rarc)
         IN  IF r.item # {} THEN Step([self EXCEPT !.rarc = {r.rarc}], r.item)
             ELSE Step([self EXCEPT !.rarc = {}], {})

RECURSIVE FileIterator_next(_)

\* FileIterator::handle_yaz0
handle_yaz0(self, map, path) ==
    Step(self, IF map.valid THEN Some(Outer(path), "Buffer") ELSE Err(Outer(path)))

\* FileIterator::handle_rarc
handle_rarc(self, map, path) ==
    LET r == RarcIterator_new(map, path)
    IN  IF ~r.ok THEN Step(self, Err(Outer(path)))
        ELSE FileIterator_next([self EXCEPT !.rarc = {r.iter}])

\* FileIterator::handle_file
handle_file(self, map, path) ==
    IF map.magic = "short" THEN Step(self, Some(Outer(path), "Map"))
    ELSE CASE map.magic = "Yaz0" -> handle_yaz0(self, map, path)
           [] map.magic = "RARC" -> handle_rarc(self, map, path)
           [] OTHER -> Step(self, Some(Outer(path), "Map"))

\* FileIterator::next_path
next_path(self) ==
    IF self.index >= Len(self.paths) THEN Step(self, {})
    ELSE LET path == self.paths[self.index + 1]
             advanced == [self EXCEPT !.index = @ + 1]
             m == map_file(path)
         IN  IF m.ok THEN handle_file(advanced, m.map, path)
             ELSE Step(advanced, Err(Outer(path)))

\* FileIterator::next: self.next_rarc().or_else(|| self.next_path())
FileIterator_next(self) ==
    LET r == next_rarc(self)
    IN  IF r.item # {} THEN r ELSE next_path(r.self)

\* The iterator of the behaviours that read no file.
NoFiles == FileIterator_new(<<>>)

---------------------------------------------------------------------------
(* The calls of a behaviour.  Spec makes MaxCalls calls with any section   *)
(* index (NumSections is no section), any address of section 0, and any    *)
(* split of a unit of Units: split.end from the end of section 0 down to 0 *)
(* (open-ended), so that section 1, which is shorter, also sees addresses  *)
(* and ends outside it.                                                    *)

Units == {"A", "B"}

Aligns == {{}, {4}, {8}}

Splits(units, ends, aligns, commons, autos) ==
    [unit : units, end : ends, align : aligns, common : commons, autogenerated : autos]

NoCall ==
    [section_index |-> 0, address |-> 0,
     split |-> [unit |-> "", end |-> 0, align |-> {}, common |-> FALSE,
                autogenerated |-> FALSE],
     res |-> "New", log |-> <<>>]

\* The sections of the object: every one of kind Code.
ObjSections ==
    [i \in Sections |->
        [kind |-> "Code", address |-> section_start(i), size |-> section_size(i)]]

\* ObjInfo::new: every section's split table is empty, no symbol, every
\* optional field None.
Init ==
    /\ splits = [i \in Sections |-> EmptyBag]
    /\ call = NoCall
    /\ ncalls = 0
    /\ relocations = EmptyMap
    /\ sections = ObjSections
    /\ symbols = <<>>
    /\ linker = Unset
    /\ iter = NoFiles

AddSplit(section_index, address, split) ==
    /\ call.res # "StackOverflow"
    /\ LET r == add_split(splits, section_index, address, split)
       IN  /\ splits' = r.splits
           /\ call' = [section_index |-> section_index, address |-> address,
                       split |-> split, res |-> r.res, log |-> r.log]
    /\ ncalls' = ncalls + 1
    /\ UNCHANGED <<iter, relocations, sections, symbols, linker>>

Next ==
    /\ ncalls < MaxCalls
    /\ \E section_index \in 0 .. NumSections, address \in 0 .. (SectionSize - 1) :
       \E below \in 0 .. SectionSize :
       \E split \in Splits(Units, {SectionSize - below}, Aligns, BOOLEAN, BOOLEAN) :
          AddSplit(section_index, address, split)

Spec == Init /\ [][Next]_vars

\* Longer behaviours over fewer calls: autogenerated splits one address long,
\* with no alignment, in the sections that exist.
NextDeep ==
    /\ ncalls < MaxDeepCalls
    /\ \E section_index \in Sections :
       \E address \in section_start(section_index) .. (section_end(section_index) - 1) :
       \E unit \in Units, common \in BOOLEAN :
          AddSplit(section_index, address,
                   [unit |-> unit, end |-> address + 1, align |-> {},
                    common |-> common, autogenerated |-> TRUE])

SpecDeep == Init /\ [][NextDeep]_vars

---------------------------------------------------------------------------
(* SpecUnits: MaxUnitCalls calls of add_split, and is_unit_autogenerated    *)
(* between them (it changes nothing and is not counted).  The splits are   *)
(* one address long; unit "A" submits autogenerated splits only, so that a *)
(* confirmed split of "A" is one renamed to "A".                           *)

\* The number of add_split calls in a behaviour of SpecUnits.
MaxUnitCalls == 4

IsUnitAutogenerated(unit) ==
    /\ call' = [op |-> "is_unit_autogenerated", unit |-> unit, res |-> "Ok",
                is_autogenerated |-> is_unit_autogenerated(splits, unit)]
    /\ UNCHANGED <<iter, splits, ncalls, relocations, sections, symbols, linker>>

NextUnits ==
    \/ /\ ncalls < MaxUnitCalls
       /\ \E section_index \in Sections :
          \E address \in section_start(section_index) .. (section_end(section_index) - 1) :
          \E unit \in Units, autogenerated \in BOOLEAN :
             /\ unit = "A" => autogenerated
             /\ AddSplit(section_index, address,
                         [unit |-> unit, end |-> address + 1, align |-> {},
                          common |-> FALSE, autogenerated |-> autogenerated])
    \/ \E unit \in Units : IsUnitAutogenerated(unit)

SpecUnits == Init /\ [][NextUnits]_vars

---------------------------------------------------------------------------
(* SpecRename: MaxRenameCalls calls of add_split by three units, so that a *)
(* merge that overwrites the split of a second unit leaves a third one     *)
(* aside.  The splits are one address long.  Unit "A" submits              *)
(* autogenerated splits, to section 0 only: a split of "A" in another      *)
(* section is one renamed to "A".  Unit "B" submits autogenerated splits   *)
(* and unit "C" confirmed ones, to any address of section 0 and to the     *)
(* start of the other sections.                                            *)

\* The number of add_split calls in a behaviour of SpecRename.
MaxRenameCalls == 5

RenameUnits == {"A", "B", "C"}

NextRename ==
    /\ ncalls < MaxRenameCalls
    /\ \E section_index \in Sections :
       \E address \in section_start(section_index) .. (section_end(section_index) - 1) :
       \E unit \in RenameUnits :
          /\ section_index # 0 => (unit # "A" /\ address = section_start(section_index))
          /\ AddSplit(section_index, address,
                      [unit |-> unit, end |-> address + 1, align |-> {},
                       common |-> FALSE, autogenerated |-> unit # "C"])

SpecRename == Init /\ [][NextRename]_vars

---------------------------------------------------------------------------
(* Calls on one ObjRelocations table.  SpecReloc starts from the empty      *)
(* table (Default) and makes MaxRelocCalls calls of insert, replace, at,    *)
(* at_mut and contains with any address of 0 .. MaxAddress; SpecNew builds  *)
(* the table with ObjRelocations::new from up to MaxEntries entries.       *)

\* The highest address a call names.
MaxAddress == 5
\* The number of calls in a behaviour of SpecReloc.
MaxRelocCalls == 3
\* The longest vector handed to ObjRelocations::new.
MaxEntries == 3

Addresses == 0 .. MaxAddress

\* Two ObjReloc values that differ in every field.
Relocs ==
    {[kind |-> "Absolute", target_symbol |-> 0, addend |-> 0, module |-> {}],
     [kind |-> "PpcRel24", target_symbol |-> 1, addend |-> -4, module |-> {1}]}

Entries == [address : Addresses, reloc : Relocs]

EntryVectors == UNION {[1 .. n -> Entries] : n \in 0 .. MaxEntries}

NoRelocCall == [op |-> "default", address |-> 0, res |-> [ok |-> TRUE]]

InitReloc ==
    /\ splits = [i \in Sections |-> EmptyBag]
    /\ call = NoRelocCall
    /\ ncalls = 0
    /\ relocations = EmptyMap
    /\ sections = ObjSections
    /\ symbols = <<>>
    /\ linker = Unset
    /\ iter = NoFiles

\* What a caller gets of a Result<(), ExistingRelocationError>.
Outcome(r) == IF r.ok THEN [ok |-> TRUE] ELSE r

New(entries) ==
    /\ LET r == new(entries)
       IN  /\ relocations' = IF r.ok THEN r.map ELSE relocations
           /\ call' = [op |-> "new", entries |-> entries, res |-> Outcome(r)]
    /\ ncalls' = ncalls + 1
    /\ UNCHANGED <<iter, splits, sections, symbols, linker>>

Insert(address, reloc) ==
    /\ ncalls < MaxRelocCalls
    /\ LET r == insert(relocations, address, reloc)
       IN  /\ relocations' = IF r.ok THEN r.map ELSE relocations
           /\ call' = [op |-> "insert", address |-> address, reloc |-> reloc,
                       res |-> Outcome(r)]
    /\ ncalls' = ncalls + 1
    /\ UNCHANGED <<iter, splits, sections, symbols, linker>>

Replace(address, reloc) ==
    /\ ncalls < MaxRelocCalls
    /\ relocations' = replace(relocations, address, reloc)
    /\ call' = [op |-> "replace", address |-> address, reloc |-> reloc,
                res |-> [ok |-> TRUE]]
    /\ ncalls' = ncalls + 1
    /\ UNCHANGED <<iter, splits, sections, symbols, linker>>

At(address) ==
    /\ ncalls < MaxRelocCalls
    /\ call' = [op |-> "at", address |-> address, found |-> at(relocations, address)]
    /\ ncalls' = ncalls + 1
    /\ UNCHANGED <<iter, splits, relocations, sections, symbols, linker>>

AtMut(address) ==
    /\ ncalls < MaxRelocCalls
    /\ call' = [op |-> "at_mut", address |-> address,
                found |-> at_mut(relocations, address)]
    /\ ncalls' = ncalls + 1
    /\ UNCHANGED <<iter, splits, relocations, sections, symbols, linker>>

Contains(address) ==
    /\ ncalls < MaxRelocCalls
    /\ call' = [op |-> "contains", address |-> address,
                present |-> contains(relocations, address)]
    /\ ncalls' = ncalls + 1
    /\ UNCHANGED <<iter, splits, relocations, sections, symbols, linker>>

NextReloc ==
    \/ \E address \in Addresses, reloc \in Relocs : Insert(address, reloc)
    \/ \E address \in Addresses, reloc \in Relocs : Replace(address, reloc)
    \/ \E address \in Addresses : At(address)
    \/ \E address \in Addresses : AtMut(address)
    \/ \E address \in Addresses : Contains(address)

SpecReloc == InitReloc /\ [][NextReloc]_vars

\* The table is built once.
NextNew == ncalls = 0 /\ \E entries \in EntryVectors : New(entries)

SpecNew == InitReloc /\ [][NextNew]_vars

---------------------------------------------------------------------------
(* Calls of add_symbol.  SpecSymbol makes MaxSymbolCalls calls with the     *)
(* reserved names and two other names, at addresses below and above U32.   *)

\* The number of add_symbol calls in a behaviour of SpecSymbol.
MaxSymbolCalls == 2

Reserved ==
    {"_SDA_BASE_", "_SDA2_BASE_", "_stack_addr", "_stack_end", "_db_stack_addr",
     "__ArenaLo", "__ArenaHi"}

SymbolNames == Reserved \cup {"main", "_SDA_BASE"}

\* Two addresses with the top bit of u32 set, and one beyond u32.
SymbolAddresses == {U32 \div 2 + 65, U32 \div 2 + 66, U32 + U32 \div 2 + 65}

NoSymbolCall == [op |-> "new", res |-> 0]

InitSymbol ==
    /\ splits = [i \in Sections |-> EmptyBag]
    /\ call = NoSymbolCall
    /\ ncalls = 0
    /\ relocations = EmptyMap
    /\ sections = ObjSections
    /\ symbols = <<>>
    /\ linker = Unset
    /\ iter = NoFiles

AddSymbol(in_symbol, overwrite) ==
    /\ LET r == add_symbol(linker, symbols, in_symbol, overwrite)
       IN  /\ linker' = r.linker
           /\ symbols' = r.symbols
           /\ call' = [op |-> "add_symbol", in_symbol |-> in_symbol,
                       replace |-> overwrite, res |-> r.index]
    /\ ncalls' = ncalls + 1
    /\ UNCHANGED <<iter, splits, relocations, sections>>

NextSymbol ==
    /\ ncalls < MaxSymbolCalls
    /\ \E name \in SymbolNames, address \in SymbolAddresses, overwrite \in BOOLEAN :
          AddSymbol([name |-> name, address |-> address, size |-> 16,
                     common |-> FALSE], overwrite)

SpecSymbol == InitSymbol /\ [][NextSymbol]_vars

---------------------------------------------------------------------------
(* Size accounting.  SpecSize starts from any vector of up to MaxSections   *)
(* sections, adds symbols and calls code_size and data_size, MaxSizeCalls   *)
(* calls in all.                                                            *)

\* The longest vector of sections handed to ObjInfo::new.
MaxSections == 2
\* The number of calls in a behaviour of SpecSize.
MaxSizeCalls == 3

SectionKinds == {"Code", "Data", "Bss"}

\* 0x40, 0x100, half the range of u32, and 0x40 beyond u32
SectionSizes == {64, 256, U32 \div 2, U32 + 64}

\* 0x10, half the range of u32, and 0x10 beyond u32
SymbolSizes == {16, U32 \div 2, U32 + 16}

SectionVectors ==
    UNION {[1 .. n -> [kind : SectionKinds, address : {0}, size : SectionSizes]] :
              n \in 0 .. MaxSections}

InitSize ==
    /\ splits = [i \in Sections |-> EmptyBag]
    /\ call = NoSymbolCall
    /\ ncalls = 0
    /\ relocations = EmptyMap
    /\ sections \in SectionVectors
    /\ symbols = <<>>
    /\ linker = Unset
    /\ iter = NoFiles

CodeSize ==
    /\ ncalls < MaxSizeCalls
    /\ \E res \in Returns(code_size(sections)) :
          call' = [op |-> "code_size", size |-> res]
    /\ ncalls' = ncalls + 1
    /\ UNCHANGED <<iter, splits, relocations, sections, symbols, linker>>

DataSize ==
    /\ ncalls < MaxSizeCalls
    /\ \E res \in Returns(data_size(sections, symbols)) :
          call' = [op |-> "data_size", size |-> res]
    /\ ncalls' = ncalls + 1
    /\ UNCHANGED <<iter, splits, relocations, sections, symbols, linker>>

NextSize ==
    \/ /\ ncalls < MaxSizeCalls
       /\ \E size \in SymbolSizes, common \in BOOLEAN :
             AddSymbol([name |-> "sym", address |-> 0, size |-> size,
                        common |-> common], FALSE)
    \/ CodeSize
    \/ DataSize

SpecSize == InitSize /\ [][NextSize]_vars

---------------------------------------------------------------------------
(* Serializing and deserializing relocation kinds.  SpecKind makes          *)
(* MaxKindCalls calls: serialize of any kind, deserialize of any string of  *)
(* Strings (the codes, the variant names, and strings that are neither).    *)

\* The number of calls in a behaviour of SpecKind.
MaxKindCalls == 4

Strings ==
    {serialize(kind) : kind \in ObjRelocKind} \cup ObjRelocKind
        \cup {"", "ABS", "absolute", "lo", "Hi", "rel32", "sda2"}

NoKindCall == [op |-> "none", text |-> ""]

InitKind ==
    /\ splits = [i \in Sections |-> EmptyBag]
    /\ call = NoKindCall
    /\ ncalls = 0
    /\ relocations = EmptyMap
    /\ sections = ObjSections
    /\ symbols = <<>>
    /\ linker = Unset
    /\ iter = NoFiles

Serialize(kind) ==
    /\ ncalls < MaxKindCalls
    /\ call' = [op |-> "serialize", kind |-> kind, text |-> serialize(kind)]
    /\ ncalls' = ncalls + 1
    /\ UNCHANGED <<iter, splits, relocations, sections, symbols, linker>>

Deserialize(s) ==
    /\ ncalls < MaxKindCalls
    /\ call' = [op |-> "deserialize", text |-> s, res |-> deserialize(s)]
    /\ ncalls' = ncalls + 1
    /\ UNCHANGED <<iter, splits, relocations, sections, symbols, linker>>

\* A string handed to deserialize: any of Strings, or what the last call
\* serialized.
NextKind ==
    \/ \E kind \in ObjRelocKind : Serialize(kind)
    \/ \E s \in Strings \cup {call.text} : Deserialize(s)

SpecKind == InitKind /\ [][NextKind]_vars

---------------------------------------------------------------------------
(* Iterating over files.  SpecFiles starts from a FileIterator over up to  *)
(* MaxPaths paths, each naming any file of Files (an archive holds up to   *)
(* MaxArchiveEntries entries), and calls next MaxNextCalls times.          *)

\* The longest vector of paths handed to FileIterator::new.
MaxPaths == 2
\* The largest number of entries of an archive.
MaxArchiveEntries == 2
\* The number of next calls in a behaviour of SpecFiles.
MaxNextCalls == 6

\* The data of an entry: one that decompress_if_needed copies, and one it
\* fails on.
EntryData == {"plain", "BadYaz0"}

\* The entries an archive holds: entry j is named j.
ArchiveEntries ==
    UNION {{[j \in 1 .. n |-> [name |-> j, data |-> d[j]]] : d \in [1 .. n -> EntryData]} :
              n \in 0 .. MaxArchiveEntries}

Files ==
    {[magic |-> m, valid |-> FALSE, entries |-> <<>>] :
        m \in {"missing", "short", "other", "Yaz0", "RARC"}}
    \cup {[magic |-> "Yaz0", valid |-> TRUE, entries |-> <<>>]}
    \cup {[magic |-> "RARC", valid |-> TRUE, entries |-> e] : e \in ArchiveEntries}

\* The vectors of paths: path i is named i.
PathVectors ==
    UNION {{[i \in 1 .. n |-> [name |-> i, file |-> f[i]]] : f \in [1 .. n -> Files]} :
              n \in 0 .. MaxPaths}

NoNextCall == [op |-> "new", item |-> {}]

InitFiles ==
    /\ splits = [i \in Sections |-> EmptyBag]
    /\ call = NoNextCall
    /\ ncalls = 0
    /\ relocations = EmptyMap
    /\ sections = ObjSections
    /\ symbols = <<>>
    /\ linker = Unset
    /\ iter \in {FileIterator_new(paths) : paths \in PathVectors}

FileIteratorNext ==
    /\ ncalls < MaxNextCalls
    /\ LET r == FileIterator_next(iter)
       IN  /\ iter' = r.self
           /\ call' = [op |-> "next", item |-> r.item]
    /\ ncalls' = ncalls + 1
    /\ UNCHANGED <<splits, relocations, sections, symbols, linker>>

NextFiles == FileIteratorNext

SpecFiles == InitFiles /\ [][NextFiles]_vars

---------------------------------------------------------------------------
(* Claims. *)

Errors ==
    {"InvalidSection", "SplitOutOfBounds", "MultipleSplits", "AlignmentConflict",
     "CommonFlagConflict", "OverlappingSplit"}

\* The addresses of section i in [addr, end); end = 0 is open-ended, up to
\* the end of the section.
Range(i, addr, end) ==
    {a \in section_start(i) .. (section_end(i) - 1) : addr <= a /\ (end = 0 \/ a < end)}

SplitRange(i, e) == Range(i, e.addr, e.end)

\* The range a call submits.
CallRange(c) == Range(c.section_index, c.address, c.split.end)

\* The addresses of section i attributed to `unit`.
UnitRange(tables, i, unit) == UNION {SplitRange(i, e) : e \in for_unit(tables[i], unit)}

\* A call that passes the checks of the section index and of split.end.
WellFormed(c) ==
    /\ c.section_index \in Sections
    /\ c.split.end = 0 \/ c.split.end <= section_end(c.section_index)

\* The stored splits of section i that belong to another unit than the
\* call's, are confirmed (or not), and overlap the range the call submits.
Rivals(tables, c, autogenerated) ==
    {e \in BagToSet(tables[c.section_index]) :
        /\ e.unit # c.split.unit
        /\ e.autogenerated = autogenerated
        /\ SplitRange(c.section_index, e) \cap CallRange(c) # {}}

\* C1: after any sequence of add_split calls the splits stored in a section
\* are pairwise non-overlapping as address ranges, on the direct-insert path
\* as on the merge path.
C1_SplitsDisjoint ==
    \A i \in Sections : \A e1, e2 \in BagToSet(splits[i]) :
        (e1 # e2 \/ splits[i][e1] > 1) =>
            SplitRange(i, e1) \cap SplitRange(i, e2) = {}

\* C2: a call with a confirmed split that overlaps a stored confirmed split
\* of another unit fails with an overlap conflict and leaves that split
\* untouched, whether or not the call's unit has a split in the section.
C2_MutualExclusion ==
    [][(WellFormed(call') /\ ~call'.split.autogenerated)
          => \A e \in Rivals(splits, call', FALSE) :
                /\ call'.res = "OverlappingSplit"
                /\ CopiesIn(e, splits'[call'.section_index])
                     = CopiesIn(e, splits[call'.section_index])]_vars

\* C3: a call of add_split that returns an error leaves the split tables of
\* every section as they were before the call.
C3_FailureIsAtomic == [][call'.res \in Errors => splits' = splits]_vars

\* C4: a call with an autogenerated split that overlaps a stored confirmed
\* split of another unit returns success and changes no state, also when the
\* call's unit has no split in the section yet.
C4_AutogeneratedYields ==
    [][(WellFormed(call') /\ call'.split.autogenerated
            /\ Rivals(splits, call', FALSE) # {})
          => (call'.res = "Ok" /\ splits' = splits)]_vars

\* C5: after a successful call for unit U the range U covers in the section
\* contains the range it covered before and the range the call submitted
\* (end = 0: up to the end of the section).
C5_MonotonicGrowth ==
    [][call'.res = "Ok"
          => (UnitRange(splits, call'.section_index, call'.split.unit)
                \cup CallRange(call'))
             \subseteq UnitRange(splits', call'.section_index, call'.split.unit)]_vars

\* C6: a successful call shrinks the coverage of no unit in any section.
C6_ObjectWideMonotonic ==
    [][call'.res = "Ok"
          => \A unit \in Units, i \in Sections :
                UnitRange(splits, i, unit) \subseteq UnitRange(splits', i, unit)]_vars

\* C7: a successful call whose range lies within the split the unit already
\* has in the section leaves the section's table unchanged, and so does the
\* repetition of a successful call.
C7_Idempotent ==
    [][call'.res = "Ok"
          => /\ (\E e \in for_unit(splits[call'.section_index], call'.split.unit) :
                    /\ CallRange(call') # {}
                    /\ CallRange(call') \subseteq SplitRange(call'.section_index, e))
                => splits'[call'.section_index] = splits[call'.section_index]
             /\ (call.res = "Ok" /\ call'.section_index = call.section_index
                    /\ call'.address = call.address /\ call'.split = call.split)
                => splits' = splits]_vars

\* C8: for a unit that has a split in the section the call fails with an
\* alignment conflict when both sides specify alignments that differ;
\* otherwise it does not, and after a success the unit's split carries the
\* alignment either side specified, also when the call's range is contained.
C8_AlignmentResolved ==
    [][WellFormed(call')
          => \A e \in for_unit(splits[call'.section_index], call'.split.unit) :
                for_unit_count(splits[call'.section_index], call'.split.unit) = 1
                => IF align_conflict(call'.split, e)
                   THEN call'.res = "AlignmentConflict"
                   ELSE /\ call'.res # "AlignmentConflict"
                        /\ call'.res = "Ok"
                           => \A x \in for_unit(splits'[call'.section_index],
                                                call'.split.unit) :
                                 x.align = new_align(call'.split, e)]_vars

\* C9: when a successful call replaces stored splits by one merged split,
\* every split it replaced had the merged split's common flag and no
\* alignment other than the merged split's.
C9_ContributionsAgree ==
    [][(call'.res = "Ok" /\ call'.log = <<"Extending", "Adding">>)
          => \A m \in for_unit(splits'[call'.section_index], call'.split.unit) :
             \A e \in BagToSet(splits[call'.section_index]) :
                CopiesIn(e, splits'[call'.section_index]) = 0
                => (e.common = m.common /\ (e.align = {} \/ e.align = m.align))]_vars

\* C10: once a confirmed split of a unit has been accepted in a section, also
\* one contained in the unit's stored split, the unit's stored split is
\* confirmed.
C10_AutogeneratedIsAnd ==
    [][(call'.res = "Ok" /\ ~call'.split.autogenerated)
          => \A e \in for_unit(splits'[call'.section_index], call'.split.unit) :
                ~e.autogenerated]_vars

\* C11: a call whose section index names no section, whose split.end is
\* nonzero and beyond the section's end, or whose start address lies outside
\* [section.address, section.address + size) fails and changes no table.
C11_StructuralValidation ==
    [][(\/ call'.section_index \notin Sections
        \/ ~WellFormed(call')
        \/ call'.address \notin
             section_start(call'.section_index) .. (section_end(call'.section_index) - 1))
          => (call'.res \in {"InvalidSection", "SplitOutOfBounds"} /\ splits' = splits)]_vars

\* The 4-byte-aligned word an address lies in.
Word(a) == 4 * (a \div 4)

\* C12: every key of the relocation table is 4-byte aligned and no two keys
\* lie in the same 4-byte word, after any calls of insert and replace with
\* any addresses (replace masks its address as insert does).
C12_RelocationUniqueness ==
    \A k1, k2 \in DOMAIN relocations :
        Word(k1) = k1 /\ (Word(k1) = Word(k2) => k1 = k2)

\* C13: insert(a, r) stores r under the word of a, and changes no other key,
\* when the table has no entry there; when it has one, insert fails with an
\* error carrying the aligned address and the existing entry and leaves the
\* table unchanged.
C13_InsertCollision ==
    [][call'.op = "insert"
          => LET k == Word(call'.address)
             IN  IF k \notin DOMAIN relocations
                 THEN /\ call'.res.ok
                      /\ DOMAIN relocations' = DOMAIN relocations \cup {k}
                      /\ relocations'[k] = call'.reloc
                      /\ \A j \in DOMAIN relocations : relocations'[j] = relocations[j]
                 ELSE /\ call'.res = [ok |-> FALSE, address |-> k,
                                      value |-> relocations[k]]
                      /\ relocations' = relocations]_vars

\* C13 witness: an insert at an unaligned address collided with the entry an
\* earlier insert stored in the same word.
C13_Witness ==
    /\ call.op = "insert"
    /\ ~call.res.ok
    /\ call.address # call.res.address
    /\ call.res.value # call.reloc

\* C14: at(a), at_mut(a) and contains(a) answer for the word of a, and
\* contains(a) is true right after a successful insert(a, r).
C14_AlignedLookup ==
    [][/\ call'.op = "at" => call'.found = at(relocations, Word(call'.address))
       /\ call'.op = "at_mut" => call'.found = at_mut(relocations, Word(call'.address))
       /\ call'.op = "contains"
             => /\ call'.present = contains(relocations, Word(call'.address))
                /\ (call.op = "insert" /\ call.res.ok /\ call.address = call'.address)
                      => call'.present]_vars

EntryWords(entries) == {Word(entries[i].address) : i \in DOMAIN entries}

\* The first entry whose word repeats that of an earlier entry.
FirstRepeat(entries) ==
    CHOOSE j \in DOMAIN entries :
        /\ \E i \in 1 .. (j - 1) : Word(entries[i].address) = Word(entries[j].address)
        /\ \A h \in 1 .. (j - 1) : \A i \in 1 .. (h - 1) :
              Word(entries[i].address) # Word(entries[h].address)

\* C15: new(entries) succeeds iff the words of the entries' addresses are
\* pairwise distinct, and the table then holds each entry under its word and
\* nothing else; otherwise it fails with the word of the first entry that
\* repeats an earlier one and with that earlier entry.
C15_BulkConstruction ==
    [][call'.op = "new"
          => LET entries == call'.entries
             IN  IF Cardinality(EntryWords(entries)) = Len(entries)
                 THEN /\ call'.res.ok
                      /\ DOMAIN relocations' = EntryWords(entries)
                      /\ \A i \in DOMAIN entries :
                            relocations'[Word(entries[i].address)] = entries[i].reloc
                 ELSE LET j == FirstRepeat(entries)
                          i == CHOOSE i \in 1 .. (j - 1) :
                                  Word(entries[i].address) = Word(entries[j].address)
                      IN  /\ call'.res = [ok |-> FALSE,
                                          address |-> Word(entries[j].address),
                                          value |-> entries[i].reloc]
                          /\ relocations' = relocations]_vars

\* C15 witnesses: a vector of three entries whose last one, at an unaligned
\* address, repeats the word of the first one and was refused with the first
\* one's relocation.
C15_Witness ==
    /\ call.op = "new"
    /\ Len(call.entries) = 3
    /\ ~call.res.ok
    /\ call.entries[3].address # call.res.address
    /\ call.res.value = call.entries[1].reloc
    /\ call.res.value # call.entries[3].reloc
    /\ call.res.value # call.entries[2].reloc

\* The aggregate field each reserved name stands for.
FieldOf ==
    [name \in Reserved |->
        CASE name = "_SDA_BASE_" -> "sda_base"
          [] name = "_SDA2_BASE_" -> "sda2_base"
          [] name = "_stack_addr" -> "stack_address"
          [] name = "_stack_end" -> "stack_end"
          [] name = "_db_stack_addr" -> "db_stack_addr"
          [] name = "__ArenaLo" -> "arena_lo"
          [] name = "__ArenaHi" -> "arena_hi"]

\* C16: add_symbol with a reserved name sets the field of that name to the
\* symbol's address modulo U32 (2^32), whatever the field held, and leaves the
\* other six fields unchanged; with any other name it leaves all seven
\* unchanged.
C16_ReservedCapture ==
    [][call'.op = "add_symbol"
          => LET name == call'.in_symbol.name
             IN  \A f \in DOMAIN linker :
                    linker'[f] = IF name \in Reserved /\ FieldOf[name] = f
                                 THEN {call'.in_symbol.address % U32}
                                 ELSE linker[f]]_vars

\* C16 witness: two symbols named _SDA_BASE_ were added, the second one at
\* an address above U32, and sda_base holds the second one's address
\* modulo U32, which differs from the first one's.
C16_Witness ==
    /\ Len(symbols) = 2
    /\ symbols[1].name = "_SDA_BASE_"
    /\ symbols[2].name = "_SDA_BASE_"
    /\ symbols[2].address >= U32
    /\ symbols[1].address % U32 # symbols[2].address % U32
    /\ linker.sda_base = {symbols[2].address % U32}

RECURSIVE Total(_)
Total(values) == IF values = <<>> THEN 0 ELSE Head(values) + Total(Tail(values))

\* The sizes, each modulo U32, of the items of `items` that satisfy Test.
SizesOf(items, Test(_)) ==
    LET chosen == SelectSeq(items, Test)
    IN  [i \in DOMAIN chosen |-> chosen[i].size % U32]

\* C17: code_size() returns the sum of the sizes of the sections of kind
\* Code, and data_size() the sum of the sizes of the other sections and of
\* the symbols flagged common, each size taken modulo U32 (2^32).
C17_SizeAccounting ==
    [][/\ call'.op = "code_size"
             => call'.size = {Total(SizesOf(sections, LAMBDA x : x.kind = "Code"))}
       /\ call'.op = "data_size"
             => call'.size = {Total(SizesOf(sections, LAMBDA x : x.kind # "Code"))
                               + Total(SizesOf(symbols, LAMBDA x : x.common))}]_vars

\* The short code of each kind.
ShortCode ==
    [kind \in ObjRelocKind |->
        CASE kind = "Absolute" -> "abs"
          [] kind = "PpcAddr16Hi" -> "hi"
          [] kind = "PpcAddr16Ha" -> "ha"
          [] kind = "PpcAddr16Lo" -> "l"
          [] kind = "PpcRel24" -> "rel24"
          [] kind = "PpcRel14" -> "rel14"
          [] kind = "PpcEmbSda21" -> "sda21"]

\* The strings that name `kind`: its short code and its legacy long name.
NamesOf(kind) == {ShortCode[kind], kind}

\* C18: a kind serializes to its short code; deserializing the short code or
\* the legacy long name of a kind yields that kind, so that deserializing
\* what a kind serialized to yields the kind; any other string fails with an
\* error listing the seven short codes.
C18_KindRoundTrip ==
    [][/\ call'.op = "serialize" => call'.text = ShortCode[call'.kind]
       /\ call'.op = "deserialize"
             => /\ \A kind \in ObjRelocKind :
                      call'.text \in NamesOf(kind)
                         => call'.res = [ok |-> TRUE, kind |-> kind]
                /\ (\A kind \in ObjRelocKind : call'.text \notin NamesOf(kind))
                         => /\ ~call'.res.ok
                            /\ {call'.res.expected[i] : i \in DOMAIN call'.res.expected}
                                 = {ShortCode[kind] : kind \in ObjRelocKind}
                /\ (call.op = "serialize" /\ call'.text = call.text)
                         => call'.res = [ok |-> TRUE, kind |-> call.kind]]_vars

\* C18 witness: after a first call, the short code "l" was deserialized to
\* PpcAddr16Lo.
C18_Witness ==
    /\ ncalls = 2
    /\ call.op = "deserialize"
    /\ call.text = "l"
    /\ call.res = [ok |-> TRUE, kind |-> "PpcAddr16Lo"]

\* C19: is_unit_autogenerated(unit) is true iff no split of `unit` stored in
\* any section is confirmed (true for a unit that owns no split), also after
\* splits of another unit were renamed to `unit`.
C19_UnitAutogenerated ==
    [][("op" \in DOMAIN call' /\ call'.op = "is_unit_autogenerated")
          => (call'.is_autogenerated
                <=> ~\E i \in Sections : \E e \in BagToSet(splits[i]) :
                        e.unit = call'.unit /\ ~e.autogenerated)]_vars

\* C19 witness: the call answered false for unit "A", which submitted
\* autogenerated splits only: the confirmed split it owns in section 1 was
\* renamed to it, and its split in section 0 is autogenerated.
C19_Witness ==
    /\ "op" \in DOMAIN call
    /\ call.op = "is_unit_autogenerated"
    /\ call.unit = "A"
    /\ ~call.is_autogenerated
    /\ \E e \in for_unit(splits[1], "A") : ~e.autogenerated
    /\ \E e \in for_unit(splits[0], "A") : e.autogenerated

\* C20: every call of add_split returns, and a call that reaches the
\* recursive call of the merge path ends on the direct-insert path of that
\* one recursive call.
C20_MergeTerminates ==
    [][/\ call'.res # "StackOverflow"
       /\ Len(call'.log) <= 2
       /\ (Len(call'.log) = 2 /\ call'.log[1] = "Extending")
             => call'.log[2] \in {"Found", "Adding"}]_vars

\* The units that own a split in some section.
UnitsOf(tables) == {e.unit : e \in all_splits(tables)}

\* The splits of `unit` stored in section i, as a bag.
UnitSplits(tables, i, unit) == [e \in for_unit(tables[i], unit) |-> tables[i][e]]

\* The units other than the call's that lost an autogenerated split of the
\* call's section: the units whose split the merge overwrote.
Overwritten(before, after, c) ==
    {e.unit : e \in {x \in BagToSet(before[c.section_index]) :
                        /\ x.unit # c.split.unit
                        /\ x.autogenerated
                        /\ CopiesIn(x, after[c.section_index])
                             < CopiesIn(x, before[c.section_index])}}

OnePerUnit(tables) ==
    \A i \in DOMAIN tables : \A unit \in UnitsOf(tables) :
        for_unit_count(tables[i], unit) <= 1

\* C22: a successful call of add_split leaves no section with two splits of
\* one unit when there was none before it, in the section of the call and
\* in the sections only its rename step touches.
C22_OneSplitPerUnit ==
    [][(call'.res = "Ok" /\ OnePerUnit(splits)) => OnePerUnit(splits')]_vars

\* What the file of a path is to yield: the items of its entries, in their
\* order, when it is an archive that opens, and one item otherwise.
ItemsOf(path) ==
    LET f == path.file
    IN  IF f.magic = "RARC" /\ f.valid
        THEN [j \in DOMAIN f.entries |->
                 [path |-> [name |-> path.name, member |-> f.entries[j].name],
                  ok |-> f.entries[j].data # "BadYaz0",
                  entry |-> IF f.entries[j].data # "BadYaz0" THEN "Buffer" ELSE "Err"]]
        ELSE <<[path |-> [name |-> path.name, member |-> 0],
                ok |-> \/ f.magic \in {"short", "other"}
                       \/ f.magic = "Yaz0" /\ f.valid,
                entry |-> CASE f.magic \in {"short", "other"} -> "Map"
                            [] f.magic = "Yaz0" /\ f.valid -> "Buffer"
                            [] OTHER -> "Err"]>>

\* The items of the paths, one path after the other.
RECURSIVE Expected(_)
Expected(paths) ==
    IF paths = <<>> THEN <<>> ELSE ItemsOf(Head(paths)) \o Expected(Tail(paths))

\* C23: the k-th call of next returns the k-th item of the sequence made of
\* the paths in their order, an archive standing for its entries in archive
\* order (failed ones too, and for nothing when it has none) and any other
\* path for one item; every call after the last item returns None.
C23_IteratorOrdering ==
    [][call'.op = "next"
          => LET expected == Expected(iter.paths)
             IN  /\ iter'.paths = iter.paths
                 /\ call'.item = IF ncalls' <= Len(expected) THEN {expected[ncalls']}
                                 ELSE {}]_vars

\* C23 witness: the iterator went through an archive without entries and an
\* archive of two entries whose first one failed, yielded both entries, and
\* has returned None twice since.
C23_Witness ==
    /\ Len(iter.paths) = 2
    /\ iter.paths[1].file = [magic |-> "RARC", valid |-> TRUE, entries |-> <<>>]
    /\ iter.paths[2].file.magic = "RARC"
    /\ Len(iter.paths[2].file.entries) = 2
    /\ iter.paths[2].file.entries[1].data = "BadYaz0"
    /\ iter.paths[2].file.entries[2].data = "plain"
    /\ ncalls = 4
    /\ call = [op |-> "next", item |-> {}]
    /\ iter.rarc = {}
    /\ iter.index = 2

====
